---- MODULE Spec2Model ----
(***************************************************************************)
(* Model of containerd's server configuration loader                      *)
(* (services/server/config/config.go): LoadConfig's breadth-first walk of  *)
(* the import graph, loadConfigFile, resolveImports, mergeConfig (on top   *)
(* of mergo.Merge with WithOverride and WithAppendSlice) and ValidateV2.   *)
(***************************************************************************)
EXTENDS Integers, Sequences, FiniteSets, TLC

\* ------------------------------------------------------------------------
\* Bounds of the model
\* ------------------------------------------------------------------------
\* longest import list one file declares
MaxImports == 2
\* import expressions declared by all the files of one run together
MaxEdges == 2

\* ------------------------------------------------------------------------
\* Sequences helpers
\* ------------------------------------------------------------------------
Range(s) == {s[i] : i \in 1..Len(s)}

SeqsUpTo(S, n) == UNION {[1..k -> S] : k \in 0..n}

RECURSIVE Flatten(_)
Flatten(ss) == IF ss = <<>> THEN <<>> ELSE Head(ss) \o Flatten(Tail(ss))

Last(s) == s[Len(s)]

Front(s) == SubSeq(s, 1, Len(s) - 1)

\* all the orders in which the elements of the finite set S can be listed
RECURSIVE Perms(_)
Perms(S) ==
    IF S = {} THEN {<<>>}
    ELSE UNION {{<<x>> \o p : p \in Perms(S \ {x})} : x \in S}

\* ------------------------------------------------------------------------
\* Paths (path/filepath).  A path is its absolute flag and its list of
\* segments; the relative path with no segment is ".".
\* ------------------------------------------------------------------------
P(abs, segs) == [abs |-> abs, segs |-> segs]

RECURSIVE CleanAcc(_, _, _)
CleanAcc(abs, acc, rest) ==
    IF rest = <<>> THEN acc
    ELSE LET s == Head(rest) IN
         IF s = "." THEN CleanAcc(abs, acc, Tail(rest))
         ELSE IF s = ".."
              THEN IF acc # <<>> /\ Last(acc) # ".."
                   THEN CleanAcc(abs, Front(acc), Tail(rest))
                   ELSE IF abs THEN CleanAcc(abs, acc, Tail(rest))
                        ELSE CleanAcc(abs, Append(acc, ".."), Tail(rest))
              ELSE CleanAcc(abs, Append(acc, s), Tail(rest))

\* filepath.Clean
Clean(p) == P(p.abs, CleanAcc(p.abs, <<>>, p.segs))

\* filepath.IsAbs
IsAbs(p) == p.abs

\* filepath.Dir: everything but the last element, cleaned
Dir(p) == Clean(P(p.abs, IF p.segs = <<>> THEN <<>> ELSE Front(p.segs)))

\* filepath.Join(dir, p)
Join(dir, p) == Clean(P(dir.abs, dir.segs \o p.segs))

\* strings.Contains(path, "*")
HasGlob(p) == \E i \in 1..Len(p.segs) : p.segs[i] = "*"

\* ------------------------------------------------------------------------
\* The file system the loader reads
\* ------------------------------------------------------------------------
\* the process working directory
Cwd == P(TRUE, <<>>)

\* the file names, in the order sort.Strings gives them
NameOrder == <<"a", "b">>

Names == Range(NameOrder)

\* the directories that hold configuration files
Dirs == {P(TRUE, <<>>), P(TRUE, <<"d">>)}

\* the files that may exist, by their canonical absolute path
Files == {P(TRUE, d.segs \o <<n>>) : d \in Dirs, n \in Names}

\* the file an open(2) of path p reaches: relative paths start at the
\* working directory, "." and ".." are resolved
Canon(p) == Clean(P(TRUE, IF p.abs THEN p.segs ELSE Cwd.segs \o p.segs))

\* filepath.Glob for a pattern whose last element is "*": the entries of the
\* pattern's directory that exist, sorted by name, each joined to the
\* directory as the pattern spells it
Glob(pat, exists) ==
    LET dir == Dir(pat)
        hit(i) == Canon(Join(dir, P(FALSE, <<NameOrder[i]>>))) \in exists
    IN  Flatten([i \in 1..Len(NameOrder) |->
                    IF hit(i) THEN <<Join(dir, P(FALSE, <<NameOrder[i]>>))>>
                    ELSE <<>>])

\* a pattern filepath.Match rejects (ErrBadPattern), e.g. "[*"
BadPattern == P(TRUE, <<"[", "*">>)

\* a relative import taken from the working directory
ResolveOneFromCwd(parent, expr, exists) ==
    IF HasGlob(expr) THEN Glob(expr, exists)
    ELSE LET c == Clean(expr) IN
         <<IF ~IsAbs(c) THEN Join(Cwd, c) ELSE c>>

\* resolveImports(parent, imports)
ResolveOne(parent, expr, exists) ==
    IF HasGlob(expr) THEN Glob(expr, exists)
    ELSE LET c == Clean(expr) IN
         <<IF ~IsAbs(c) THEN Join(Dir(parent), c) ELSE c>>

resolveImports(parent, imports, exists) ==
    Flatten([i \in 1..Len(imports) |-> ResolveOne(parent, imports[i], exists)])

resolveImportsFails(imports) == \E i \in 1..Len(imports) : imports[i] = BadPattern

\* ------------------------------------------------------------------------
\* Plugin identifiers: the dot-separated segments of the string
\* ------------------------------------------------------------------------
\* strings.HasPrefix(p, "io.containerd."): the dot after "containerd" asks
\* for a third segment (which may be empty)
HasPrefix(p) == Len(p) >= 3 /\ p[1] = "io" /\ p[2] = "containerd"

\* len(strings.SplitN(p, ".", n))
SplitNLen(p, n) == IF Len(p) < n THEN Len(p) ELSE n

\* the test ValidateV2 makes of every identifier
InvalidURI(p) == ~HasPrefix(p) \/ SplitNLen(p, 4) < 4

\* ------------------------------------------------------------------------
\* Config and its sections
\* ------------------------------------------------------------------------
ZeroGRPC ==
    [Address |-> "", TCPAddress |-> "", TCPTLSCA |-> "", TCPTLSCert |-> "",
     TCPTLSKey |-> "", UID |-> 0, GID |-> 0, MaxRecvMsgSize |-> 0,
     MaxSendMsgSize |-> 0]

ZeroTTRPC == [Address |-> "", UID |-> 0, GID |-> 0]

ZeroDebug == [Address |-> "", UID |-> 0, GID |-> 0, Level |-> "", Format |-> ""]

ZeroMetrics == [Address |-> "", GRPCHistogram |-> FALSE]

ZeroCgroup == [Path |-> ""]

\* the map with no key
EmptyMap == [k \in {} |-> 0]

\* Config{}: what loadConfigFile decodes into
ZeroConfig ==
    [Version |-> 0, Root |-> "", State |-> "", TempDir |-> "", PluginDir |-> "",
     GRPC |-> ZeroGRPC, TTRPC |-> ZeroTTRPC, Debug |-> ZeroDebug,
     Metrics |-> ZeroMetrics, DisabledPlugins |-> <<>>, RequiredPlugins |-> <<>>,
     Plugins |-> EmptyMap, OOMScore |-> 0, Cgroup |-> ZeroCgroup,
     ProxyPlugins |-> EmptyMap, Timeouts |-> EmptyMap, Imports |-> <<>>,
     StreamProcessors |-> EmptyMap]

\* the scalar fields, by kind and by the section that holds them
StringFields == {"Root", "State", "TempDir", "PluginDir"}

IntFields == {"Version", "OOMScore"}

Sections == {"GRPC", "TTRPC", "Debug", "Metrics", "Cgroup"}

SectionStrings(s) ==
    CASE s = "GRPC" -> {"Address", "TCPAddress", "TCPTLSCA", "TCPTLSCert", "TCPTLSKey"}
      [] s = "TTRPC" -> {"Address"}
      [] s = "Debug" -> {"Address", "Level", "Format"}
      [] s = "Metrics" -> {"Address"}
      [] s = "Cgroup" -> {"Path"}

SectionInts(s) ==
    CASE s = "GRPC" -> {"UID", "GID", "MaxRecvMsgSize", "MaxSendMsgSize"}
      [] s = "TTRPC" -> {"UID", "GID"}
      [] s = "Debug" -> {"UID", "GID"}
      [] s = "Metrics" -> {}
      [] s = "Cgroup" -> {}

SectionBools(s) == IF s = "Metrics" THEN {"GRPCHistogram"} ELSE {}

\* a value of a plugin's table: a string, or a list of strings
Str(s) == [kind |-> "str", items |-> <<s>>]

List(l) == [kind |-> "list", items |-> l]

\* ------------------------------------------------------------------------
\* mergo.Merge(to, from, WithOverride, WithAppendSlice), as mergeConfig
\* calls it
\* ------------------------------------------------------------------------
\* a string, int or bool field: src is set over dst unless src is empty
MergeStringNoOverride(dst, src) == IF dst = "" THEN src ELSE dst

MergeString(dst, src) == IF src = "" THEN dst ELSE src

MergeInt(dst, src) == IF src = 0 THEN dst ELSE src

MergeBool(dst, src) == IF src = FALSE THEN dst ELSE src

\* a slice field: reflect.AppendSlice(dst, src)
MergeSliceNoAppend(dst, src) == IF src = <<>> THEN dst ELSE src

MergeSlice(dst, src) == dst \o src

\* a struct field: field by field
MergeSection(s, dst, src) ==
    [f \in DOMAIN dst |->
        IF f \in SectionStrings(s) THEN MergeString(dst[f], src[f])
        ELSE IF f \in SectionInts(s) THEN MergeInt(dst[f], src[f])
        ELSE MergeBool(dst[f], src[f])]

\* a map whose values are strings or structs: a key of src is set over
\* dst's (the copies deepMerge is given of the two values cannot be set)
MergeMap(dst, src) ==
    [k \in DOMAIN dst \cup DOMAIN src |-> IF k \in DOMAIN src THEN src[k] ELSE dst[k]]

\* the keys of a plugin's table on which the merge of src into dst fails:
\* src holds a list where dst holds a value of another type
TableClash(dst, src) ==
    {k \in DOMAIN dst \cap DOMAIN src : src[k].kind = "list" /\ dst[k].kind # "list"}

\* a plugin's table (map[string]interface{}) merged key by key into dst's
MergeTable(dst, src) ==
    [k \in DOMAIN dst \cup DOMAIN src |->
        IF k \notin DOMAIN src THEN dst[k]
        ELSE IF k \notin DOMAIN dst THEN src[k]
        ELSE IF src[k].kind = "list" THEN List(dst[k].items \o src[k].items)
        ELSE src[k]]

\* the plugin ids whose tables cannot be merged
PluginClash(dst, src) ==
    {id \in DOMAIN dst \cap DOMAIN src : TableClash(dst[id], src[id]) # {}}

\* Plugins after the ids in `ids` were merged
MergePlugins(dst, src, ids) ==
    [id \in DOMAIN dst \cup ids |->
        IF id \notin ids THEN dst[id]
        ELSE IF id \notin DOMAIN dst THEN src[id]
        ELSE MergeTable(dst[id], src[id])]

\* the fields are merged in the order the struct declares them
MergoFailed(to, from) == PluginClash(to.Plugins, from.Plugins) # {}

\* a successful merge
MergoMerge(to, from) ==
    [Version |-> MergeInt(to.Version, from.Version),
     Root |-> MergeString(to.Root, from.Root),
     State |-> MergeString(to.State, from.State),
     TempDir |-> MergeString(to.TempDir, from.TempDir),
     PluginDir |-> MergeString(to.PluginDir, from.PluginDir),
     GRPC |-> MergeSection("GRPC", to.GRPC, from.GRPC),
     TTRPC |-> MergeSection("TTRPC", to.TTRPC, from.TTRPC),
     Debug |-> MergeSection("Debug", to.Debug, from.Debug),
     Metrics |-> MergeSection("Metrics", to.Metrics, from.Metrics),
     DisabledPlugins |-> MergeSlice(to.DisabledPlugins, from.DisabledPlugins),
     RequiredPlugins |-> MergeSlice(to.RequiredPlugins, from.RequiredPlugins),
     Plugins |-> MergePlugins(to.Plugins, from.Plugins, DOMAIN from.Plugins),
     OOMScore |-> MergeInt(to.OOMScore, from.OOMScore),
     Cgroup |-> MergeSection("Cgroup", to.Cgroup, from.Cgroup),
     ProxyPlugins |-> MergeMap(to.ProxyPlugins, from.ProxyPlugins),
     Timeouts |-> MergeMap(to.Timeouts, from.Timeouts),
     Imports |-> MergeSlice(to.Imports, from.Imports),
     StreamProcessors |-> MergeMap(to.StreamProcessors, from.StreamProcessors)]

\* a merge that failed in Plugins after the ids in `ids` (none of them
\* clashing) were merged: the fields declared before Plugins are merged,
\* the fields declared after it are untouched
MergoAborted(to, from, ids) ==
    [to EXCEPT
        !.Version = MergeInt(to.Version, from.Version),
        !.Root = MergeString(to.Root, from.Root),
        !.State = MergeString(to.State, from.State),
        !.TempDir = MergeString(to.TempDir, from.TempDir),
        !.PluginDir = MergeString(to.PluginDir, from.PluginDir),
        !.GRPC = MergeSection("GRPC", to.GRPC, from.GRPC),
        !.TTRPC = MergeSection("TTRPC", to.TTRPC, from.TTRPC),
        !.Debug = MergeSection("Debug", to.Debug, from.Debug),
        !.Metrics = MergeSection("Metrics", to.Metrics, from.Metrics),
        !.DisabledPlugins = MergeSlice(to.DisabledPlugins, from.DisabledPlugins),
        !.RequiredPlugins = MergeSlice(to.RequiredPlugins, from.RequiredPlugins),
        !.Plugins = MergePlugins(to.Plugins, from.Plugins, ids)]

\* ------------------------------------------------------------------------
\* mergeConfig(to, from)
\* ------------------------------------------------------------------------
\* "Replace entire sections instead of merging map's values"
ReplaceKeysKeepMerged(m, src) == m

ReplaceKeys(m, src) ==
    [k \in DOMAIN m \cup DOMAIN src |-> IF k \in DOMAIN src THEN src[k] ELSE m[k]]

mergeConfigFails(to, from) == MergoFailed(to, from)

mergeConfig(to, from) ==
    LET m == MergoMerge(to, from) IN
    [m EXCEPT
        !.Plugins = ReplaceKeys(m.Plugins, from.Plugins),
        !.StreamProcessors = ReplaceKeys(m.StreamProcessors, from.StreamProcessors),
        !.ProxyPlugins = ReplaceKeys(m.ProxyPlugins, from.ProxyPlugins),
        !.Timeouts = ReplaceKeys(m.Timeouts, from.Timeouts)]

\* ------------------------------------------------------------------------
\* GetVersion and ValidateV2
\* ------------------------------------------------------------------------
NoPath == P(FALSE, <<>>)

NoId == <<>>

\* an error value: its message's kind, the path LoadConfig wraps around it,
\* the identifier and the version number the message prints
Err(kind, id, got) == [kind |-> kind, wrap |-> NoPath, id |-> id, got |-> got]

Nil == Err("nil", NoId, 0)

GetVersionIdentity(c) == c.Version

GetVersion(c) == IF c.Version = 0 THEN 1 ELSE c.Version

FirstInvalid(l) == l[CHOOSE i \in 1..Len(l) : InvalidURI(l[i]) /\ \A j \in 1..(i - 1) : ~InvalidURI(l[j])]

\* the identifier checks of ValidateV2, in the order it makes them; the keys
\* of Plugins are ranged over in no fixed order, so any invalid key may be
\* the one reported
ValidateURIsPluginKeysUnchecked(c) ==
    IF \E i \in 1..Len(c.DisabledPlugins) : InvalidURI(c.DisabledPlugins[i])
    THEN {Err("disabled_uri", FirstInvalid(c.DisabledPlugins), 0)}
    ELSE IF \E i \in 1..Len(c.RequiredPlugins) : InvalidURI(c.RequiredPlugins[i])
    THEN {Err("required_uri", FirstInvalid(c.RequiredPlugins), 0)}
    ELSE {Nil}

ValidateURIs(c) ==
    IF \E i \in 1..Len(c.DisabledPlugins) : InvalidURI(c.DisabledPlugins[i])
    THEN {Err("disabled_uri", FirstInvalid(c.DisabledPlugins), 0)}
    ELSE IF \E i \in 1..Len(c.RequiredPlugins) : InvalidURI(c.RequiredPlugins[i])
    THEN {Err("required_uri", FirstInvalid(c.RequiredPlugins), 0)}
    ELSE IF \E k \in DOMAIN c.Plugins : InvalidURI(k)
    THEN {Err("plugin_uri", k, 0) : k \in {x \in DOMAIN c.Plugins : InvalidURI(x)}}
    ELSE {Nil}

\* the errors ValidateV2 may return (Nil: none)
ValidateV2(c) ==
    LET version == GetVersion(c) IN
    IF version = 1 THEN {Err("version1_unsupported", NoId, 1)}
    ELSE IF version # 2 THEN {Err("version_expected_2", NoId, version)}
    ELSE ValidateURIs(c)

\* ------------------------------------------------------------------------
\* The documents the files may hold
\* ------------------------------------------------------------------------
IdCRI == <<"io", "containerd", "grpc", "v1", "cri">>

IdSnap == <<"io", "containerd", "snapshotter", "v1">>

IdShort == <<"io", "containerd", "cri">>

IdBare == <<"cri">>

IdOther == <<"io", "containerdx", "grpc", "v1">>

\* a string that tells the file apart
Tag(f) ==
    CASE f = P(TRUE, <<"a">>) -> "/a"
      [] f = P(TRUE, <<"b">>) -> "/b"
      [] f = P(TRUE, <<"d", "a">>) -> "/d/a"
      [] f = P(TRUE, <<"d", "b">>) -> "/d/b"
      [] OTHER -> "/other"

\* the import expressions a file may declare
ImportExprs ==
    {P(FALSE, <<"b">>), P(TRUE, <<"a">>), P(TRUE, <<"d", "a">>),
     P(FALSE, <<"d", "*">>), BadPattern}

\* the bodies a file may hold (its imports aside): what it decodes to, the
\* number of keys in it the schema does not know, and whether it is
\* well-formed TOML
Body(ok, unknown, config) == [ok |-> ok, unknown |-> unknown, config |-> config]

Bodies(f) ==
    LET t == Tag(f) IN
    { Body(TRUE, 0, ZeroConfig),
      Body(TRUE, 0, [ZeroConfig EXCEPT
          !.Version = 2, !.Root = t, !.DisabledPlugins = <<IdSnap>>,
          !.Plugins = (IdCRI :> (t :> Str(t) @@ "k" :> Str(t)))]),
      Body(TRUE, 1, [ZeroConfig EXCEPT
          !.Version = 2, !.GRPC = [ZeroGRPC EXCEPT !.Address = t],
          !.DisabledPlugins = <<IdCRI>>, !.RequiredPlugins = <<IdSnap>>,
          !.Plugins = (IdCRI :> ("k" :> List(<<t>>))),
          !.Timeouts = ("io.containerd.timeout.shim.load" :> t)]),
      Body(FALSE, 0, ZeroConfig) }

\* a file: a body and the imports it declares
Doc(body, imports) ==
    [ok |-> body.ok, unknown |-> body.unknown,
     config |-> [body.config EXCEPT !.Imports = imports]]

Unread == Doc(Body(FALSE, 0, ZeroConfig), <<>>)

\* toml Decode of a well-formed document into target: every key the
\* document gives is written, the other fields keep what target held
TomlDecode(target, doc) ==
    [f \in DOMAIN target |->
        IF doc.config[f] = ZeroConfig[f] THEN target[f] ELSE doc.config[f]]

\* the first, strict pass: a document that is not well-formed fails with a
\* DecodeError, one with keys the schema lacks with a StrictMissingError
StrictDecode(doc) ==
    IF ~doc.ok THEN [err |-> "decode", config |-> ZeroConfig]
    ELSE [err |-> IF doc.unknown > 0 THEN "strict_missing" ELSE "nil",
          config |-> TomlDecode(ZeroConfig, doc)]

\* the retry is missing: the StrictMissingError is returned
loadConfigFileNoRetry(doc) ==
    LET strict == StrictDecode(doc) IN
    IF strict.err # "nil"
    THEN [err |-> "decode", config |-> ZeroConfig, warned |-> 0]
    ELSE [err |-> "nil", config |-> strict.config, warned |-> 0]

\* loadConfigFile on a file that could be opened: the error, the tree
\* decoded and the number of warnings logged
loadConfigFile(doc) ==
    LET strict == StrictDecode(doc) IN
    IF strict.err = "strict_missing"
    THEN [err |-> "nil", config |-> TomlDecode(ZeroConfig, doc), warned |-> doc.unknown]
    ELSE IF strict.err # "nil"
    THEN [err |-> "decode", config |-> ZeroConfig, warned |-> 0]
    ELSE [err |-> "nil", config |-> strict.config, warned |-> 0]

\* the trees the caller may pass as `out`
OutDefaults ==
    { ZeroConfig,
      [ZeroConfig EXCEPT !.Version = 2, !.Root = "/var/lib/containerd",
                         !.DisabledPlugins = <<IdSnap>>] }

\* the sets of files that may exist
Existing == {Files, Files \ {P(TRUE, <<"d", "b">>)}}

\* the paths the caller may pass
RootPaths == {P(TRUE, <<"a">>)}

\* ------------------------------------------------------------------------
\* State
\* ------------------------------------------------------------------------
VARIABLES
    exists,     \* the files that exist
    fs,         \* what each file holds, once it was read
    read,       \* the files read so far
    root,       \* the path LoadConfig was called with
    outNil,     \* whether the caller passed out = nil
    path,       \* LoadConfig's variable path
    pending,    \* LoadConfig's queue
    loaded,     \* LoadConfig's visited set
    out,        \* the caller's tree
    pc,         \* "loop" while LoadConfig runs, "done" once it returned
    err,        \* what LoadConfig returned
    merged,     \* the paths decoded and merged, in order
    warnings,   \* the warnings logged for unknown keys
    regs,       \* the Config of every plugin registration
    decoded,    \* what the last Config.Decode returned
    calls,      \* the calls of the sandbox controller service
    ctrl,       \* what the local sandbox controller has done
    events      \* the events published

vars == <<exists, fs, read, root, outNil, path, pending, loaded, out, pc, err,
          merged, warnings, regs, decoded, calls, ctrl, events>>

\* the state outside LoadConfig
others == <<regs, decoded, calls, ctrl, events>>

\* no plugin is registered and the sandbox controller service is not used
NoOthers ==
    /\ regs = <<>>
    /\ decoded = <<>>
    /\ calls = <<>>
    /\ ctrl = <<>>
    /\ events = <<>>

\* the import expressions declared by the files read so far
Edges == LET RECURSIVE Sum(_)
             Sum(S) == IF S = {} THEN 0
                       ELSE LET f == CHOOSE x \in S : TRUE
                            IN Len(fs[f].config.Imports) + Sum(S \ {f})
         IN Sum(read)

\* what the file at f may hold when it is read: what it held before, or, on
\* the first read, any document within the bounds
Holds(f) ==
    IF f \in read THEN {fs[f]}
    ELSE {Doc(b, i) : b \in Bodies(f),
                      i \in SeqsUpTo(ImportExprs, IF MaxEdges - Edges < MaxImports
                                                  THEN MaxEdges - Edges
                                                  ELSE MaxImports)}

Init ==
    /\ exists \in Existing
    /\ fs = [f \in Files |-> Unread]
    /\ read = {}
    /\ root \in RootPaths
    /\ outNil \in BOOLEAN
    /\ path = root
    /\ pending = <<root>>
    /\ loaded = {}
    /\ out \in OutDefaults
    /\ pc = "loop"
    /\ err = Nil
    /\ merged = <<>>
    /\ warnings = 0
    /\ NoOthers

\* ------------------------------------------------------------------------
\* LoadConfig
\* ------------------------------------------------------------------------
\* a return statement that is missing: the error is noted and the loop goes on
ReturnAndGoOn(e) == pc' = pc /\ err' = e

Return(e) == pc' = "done" /\ err' = e

\* "Check if a file at the given path already loaded"
AlreadyLoadedNever(p, set) == FALSE

AlreadyLoaded(p, set) == p \in set

\* out == nil
NilOut ==
    /\ pc = "loop" /\ outNil
    /\ Return(Err("invalid_argument", NoId, 0))
    /\ UNCHANGED <<others, exists, fs, read, root, outNil, path, pending, loaded, out,
                   merged, warnings>>

\* one turn of the loop: the path popped is loaded already
Skip ==
    /\ pc = "loop" /\ ~outNil /\ pending # <<>>
    /\ AlreadyLoaded(Head(pending), loaded)
    /\ path' = Head(pending)
    /\ pending' = Tail(pending)
    /\ UNCHANGED <<others, exists, fs, read, root, outNil, loaded, out, pc, err, merged,
                   warnings>>

\* one turn of the loop: os.Open fails in loadConfigFile
OpenFails ==
    /\ pc = "loop" /\ ~outNil /\ pending # <<>>
    /\ ~AlreadyLoaded(Head(pending), loaded)
    /\ Canon(Head(pending)) \notin exists
    /\ path' = Head(pending)
    /\ pending' = Tail(pending)
    /\ Return(Err("open", NoId, 0))
    /\ UNCHANGED <<others, exists, fs, read, root, outNil, loaded, out, merged, warnings>>

\* the file the popped path opens is read
ReadFile(f, doc) ==
    /\ fs' = [fs EXCEPT ![f] = doc]
    /\ read' = read \cup {f}

\* the warnings loadConfigFile logs: one for each unknown key
Warned(doc) == warnings + loadConfigFile(doc).warned

\* one turn of the loop: the file is not well-formed TOML
DecodeFails ==
    /\ pc = "loop" /\ ~outNil /\ pending # <<>>
    /\ ~AlreadyLoaded(Head(pending), loaded)
    /\ Canon(Head(pending)) \in exists
    /\ \E doc \in Holds(Canon(Head(pending))) :
          /\ loadConfigFile(doc).err # "nil"
          /\ ReadFile(Canon(Head(pending)), doc)
          /\ warnings' = Warned(doc)
    /\ path' = Head(pending)
    /\ pending' = Tail(pending)
    /\ Return(Err("decode", NoId, 0))
    /\ UNCHANGED <<others, exists, root, outNil, loaded, out, merged>>

\* one turn of the loop: mergeConfig fails
MergeFails ==
    /\ pc = "loop" /\ ~outNil /\ pending # <<>>
    /\ ~AlreadyLoaded(Head(pending), loaded)
    /\ Canon(Head(pending)) \in exists
    /\ \E doc \in Holds(Canon(Head(pending))) :
          /\ loadConfigFile(doc).err = "nil"
          /\ mergeConfigFails(out, loadConfigFile(doc).config)
          /\ ReadFile(Canon(Head(pending)), doc)
          /\ warnings' = Warned(doc)
          /\ \E ids \in SUBSET (DOMAIN loadConfigFile(doc).config.Plugins
                                  \ PluginClash(out.Plugins, loadConfigFile(doc).config.Plugins)) :
                out' = MergoAborted(out, loadConfigFile(doc).config, ids)
    /\ path' = Head(pending)
    /\ pending' = Tail(pending)
    /\ merged' = Append(merged, Head(pending))
    /\ Return(Err("merge", NoId, 0))
    /\ UNCHANGED <<others, exists, root, outNil, loaded>>

\* one turn of the loop: resolveImports fails
ResolveFails ==
    /\ pc = "loop" /\ ~outNil /\ pending # <<>>
    /\ ~AlreadyLoaded(Head(pending), loaded)
    /\ Canon(Head(pending)) \in exists
    /\ \E doc \in Holds(Canon(Head(pending))) :
          /\ loadConfigFile(doc).err = "nil"
          /\ ~mergeConfigFails(out, loadConfigFile(doc).config)
          /\ resolveImportsFails(loadConfigFile(doc).config.Imports)
          /\ ReadFile(Canon(Head(pending)), doc)
          /\ warnings' = Warned(doc)
          /\ out' = mergeConfig(out, loadConfigFile(doc).config)
    /\ path' = Head(pending)
    /\ pending' = Tail(pending)
    /\ merged' = Append(merged, Head(pending))
    /\ Return(Err("glob", NoId, 0))
    /\ UNCHANGED <<others, exists, root, outNil, loaded>>

\* pending = append(pending, imports...)
EnqueueFront(queue, imports) == imports \o queue

Enqueue(queue, imports) == queue \o imports

\* one turn of the loop: the file is decoded and merged, its imports are
\* resolved and queued
Load ==
    /\ pc = "loop" /\ ~outNil /\ pending # <<>>
    /\ ~AlreadyLoaded(Head(pending), loaded)
    /\ Canon(Head(pending)) \in exists
    /\ \E doc \in Holds(Canon(Head(pending))) :
          /\ loadConfigFile(doc).err = "nil"
          /\ ~mergeConfigFails(out, loadConfigFile(doc).config)
          /\ ~resolveImportsFails(loadConfigFile(doc).config.Imports)
          /\ ReadFile(Canon(Head(pending)), doc)
          /\ warnings' = Warned(doc)
          /\ out' = mergeConfig(out, loadConfigFile(doc).config)
          /\ pending' = Enqueue(Tail(pending),
                                resolveImports(Head(pending), loadConfigFile(doc).config.Imports, exists))
    /\ path' = Head(pending)
    /\ loaded' = loaded \cup {Head(pending)}
    /\ merged' = Append(merged, Head(pending))
    /\ UNCHANGED <<others, exists, root, outNil, pc, err>>

\* the path the validation error is wrapped with
WrapPath == path

\* "Fix up the list of config files loaded": the keys of loaded, in the
\* order the map happens to be ranged over
FixUp(set) == Perms(set)

\* the queue is empty: the import list is fixed up and the tree validated
Finish ==
    /\ pc = "loop" /\ ~outNil /\ pending = <<>>
    /\ \E imports \in FixUp(loaded) :
          /\ out' = [out EXCEPT !.Imports = imports]
          /\ \E e \in ValidateV2(out') :
                Return(IF e = Nil THEN Nil ELSE [e EXCEPT !.wrap = WrapPath])
    /\ UNCHANGED <<others, exists, fs, read, root, outNil, path, pending, loaded, merged,
                   warnings>>

Next ==
    \/ NilOut
    \/ Skip
    \/ OpenFails
    \/ DecodeFails
    \/ MergeFails
    \/ ResolveFails
    \/ Load
    \/ Finish

\* LoadConfig on any root path, tree and files within the bounds
Spec == Init /\ [][Next]_vars

\* ------------------------------------------------------------------------
\* LoadConfig on two files, /a importing /b, that hold any two trees of
\* MergeConfigs: every turn of the loop merges one of them
\* ------------------------------------------------------------------------
\* longest list of a tree
MaxList == 2

ScalarValues(kind) ==
    CASE kind = "string" -> {"x", "y"}
      [] kind = "int" -> {1, 2}
      [] kind = "bool" -> {TRUE}

SectionOf(c, s) ==
    CASE s = "GRPC" -> c.GRPC
      [] s = "TTRPC" -> c.TTRPC
      [] s = "Debug" -> c.Debug
      [] s = "Metrics" -> c.Metrics
      [] s = "Cgroup" -> c.Cgroup

WithSection(c, s, v) ==
    CASE s = "GRPC" -> [c EXCEPT !.GRPC = v]
      [] s = "TTRPC" -> [c EXCEPT !.TTRPC = v]
      [] s = "Debug" -> [c EXCEPT !.Debug = v]
      [] s = "Metrics" -> [c EXCEPT !.Metrics = v]
      [] s = "Cgroup" -> [c EXCEPT !.Cgroup = v]

\* the trees that set one scalar field
ScalarConfigs ==
    {[ZeroConfig EXCEPT ![f] = v] : f \in StringFields, v \in ScalarValues("string")}
    \cup {[ZeroConfig EXCEPT ![f] = v] : f \in IntFields, v \in ScalarValues("int")}
    \cup UNION {{WithSection(ZeroConfig, s, [SectionOf(ZeroConfig, s) EXCEPT ![f] = v])
                    : f \in SectionStrings(s), v \in ScalarValues("string")}
                : s \in Sections}
    \cup UNION {{WithSection(ZeroConfig, s, [SectionOf(ZeroConfig, s) EXCEPT ![f] = v])
                    : f \in SectionInts(s), v \in ScalarValues("int")}
                : s \in Sections}
    \cup UNION {{WithSection(ZeroConfig, s, [SectionOf(ZeroConfig, s) EXCEPT ![f] = v])
                    : f \in SectionBools(s), v \in ScalarValues("bool")}
                : s \in Sections}

\* the trees that set the two lists
ListConfigs ==
    {[ZeroConfig EXCEPT !.DisabledPlugins = d, !.RequiredPlugins = r]
        : d \in SeqsUpTo({IdCRI, IdSnap}, MaxList),
          r \in SeqsUpTo({IdCRI}, MaxList)}

\* the maps from some of the keys in K to values in V
Maps(K, V) == UNION {[D -> V] : D \in SUBSET K}

Tables ==
    {("k" :> Str("v1")), ("k" :> Str("v2") @@ "k2" :> Str("v3")),
     ("k" :> List(<<"v1">>)), ("k2" :> List(<<"v2">>))}

ProxyPlugins ==
    {[Type |-> "snapshot", Address |-> "/s1", Platform |-> ""],
     [Type |-> "content", Address |-> "", Platform |-> "linux"]}

StreamProcessors ==
    {[Accepts |-> <<"m1">>, Returns |-> "m2", Path |-> "/p1", Args |-> <<>>, Env |-> <<>>],
     [Accepts |-> <<>>, Returns |-> "", Path |-> "/p2", Args |-> <<"x">>, Env |-> <<"E=1">>]}

\* the trees that set one of the four maps
MapConfigs ==
    {[ZeroConfig EXCEPT !.Plugins = m] : m \in Maps({IdCRI, IdSnap}, Tables)}
    \cup {[ZeroConfig EXCEPT !.Timeouts = m] : m \in Maps({"k", "k2"}, {"1s", "2s"})}
    \cup {[ZeroConfig EXCEPT !.ProxyPlugins = m] : m \in Maps({"p", "p2"}, ProxyPlugins)}
    \cup {[ZeroConfig EXCEPT !.StreamProcessors = m]
              : m \in Maps({"s", "s2"}, StreamProcessors)}

MergeConfigs == ScalarConfigs \cup ListConfigs \cup MapConfigs

FileA == P(TRUE, <<"a">>)

FileB == P(TRUE, <<"b">>)

InitMerge ==
    /\ exists = Files
    /\ \E A \in MergeConfigs, B \in MergeConfigs :
          fs = [f \in Files |->
                  IF f = FileA THEN Doc(Body(TRUE, 0, A), <<P(FALSE, <<"b">>)>>)
                  ELSE IF f = FileB THEN Doc(Body(TRUE, 0, B), <<>>)
                  ELSE Unread]
    /\ read = {FileA, FileB}
    /\ root = FileA
    /\ outNil = FALSE
    /\ path = root
    /\ pending = <<root>>
    /\ loaded = {}
    /\ out = ZeroConfig
    /\ pc = "loop"
    /\ err = Nil
    /\ merged = <<>>
    /\ warnings = 0
    /\ NoOthers

\* the turns of the loop these files enable
NextMerge ==
    \/ MergeFails
    \/ Load
    \/ Finish

SpecMerge == InitMerge /\ [][NextMerge]_vars

\* ------------------------------------------------------------------------
\* LoadConfig on one file without imports that holds any tree of
\* ValidateConfigs, merged into the caller's tree and validated
\* ------------------------------------------------------------------------
\* greatest version number of a tree
MaxVersion == 3

\* longest identifier list of a tree
MaxIds == 2

Ids == {IdCRI, IdShort, IdBare, IdOther}

ValidateConfigs ==
    {[ZeroConfig EXCEPT !.Version = v, !.DisabledPlugins = d, !.RequiredPlugins = r,
                        !.Plugins = [k \in ks |-> ("k" :> Str("v"))]]
        : v \in 0..MaxVersion, d \in SeqsUpTo(Ids, MaxIds),
          r \in SeqsUpTo({IdCRI, IdShort}, MaxIds), ks \in SUBSET Ids}

InitValidate ==
    /\ exists = Files
    /\ \E A \in ValidateConfigs :
          fs = [f \in Files |->
                  IF f = FileA THEN Doc(Body(TRUE, 0, A), <<>>) ELSE Unread]
    /\ read = {FileA}
    /\ root = FileA
    /\ outNil = FALSE
    /\ path = root
    /\ pending = <<root>>
    /\ loaded = {}
    /\ out \in OutDefaults
    /\ pc = "loop"
    /\ err = Nil
    /\ merged = <<>>
    /\ warnings = 0
    /\ NoOthers

\* the turns of the loop this file enables
NextValidate ==
    \/ Load
    \/ Finish

SpecValidate == InitValidate /\ [][NextValidate]_vars

\* ------------------------------------------------------------------------
\* Properties
\* ------------------------------------------------------------------------
ValidationKinds ==
    {"version1_unsupported", "version_expected_2", "disabled_uri", "required_uri",
     "plugin_uri"}

\* LoadConfig returned from its last lines: the queue drained, the import
\* list was fixed up and ValidateV2 ran
Validated == pc = "done" /\ err.kind \in ValidationKinds \cup {"nil"}

\* the tree decoded from the file path p opens
ConfigAt(p) == fs[Canon(p)].config

\* the paths the imports of the file at p resolve to
ResolvedImports(p) == resolveImports(p, ConfigAt(p).Imports, exists)

ImportsOf(p) == Range(ResolvedImports(p))

\* the paths reached from the paths in S along the imports of loaded files
RECURSIVE Reach(_)
Reach(S) ==
    LET T == S \cup UNION {ImportsOf(q) : q \in S \cap loaded}
    IN  IF T = S THEN S ELSE Reach(T)

\* every spelling a path of this file system can take in the queue
PathUniverse ==
    {P(abs, segs) : abs \in BOOLEAN,
                    segs \in SeqsUpTo(Names \cup {"d"}, 2) \ {<<>>}}

\* the paths one file's imports resolve to, at most
MaxFanout == MaxImports * Len(NameOrder)

\* what is left to do: the queue, and for every path not yet loaded the
\* turn that loads it and the imports that turn may queue
Measure == Len(pending) + (MaxFanout + 2) * Cardinality(PathUniverse \ loaded)

\* the import list holds every loaded path, each once
ImportsAreLoaded ==
    /\ Range(out.Imports) = loaded
    /\ Len(out.Imports) = Cardinality(loaded)
    /\ Range(merged) = loaded
    /\ Len(merged) = Cardinality(loaded)

\* C1: for any import graph, cyclic ones and self-imports included,
\* LoadConfig terminates: every turn of its loop either returns or strictly
\* decreases Measure, a natural number; and once the queue has drained the
\* import list of out holds each distinct visited path exactly once.
C1_TerminatesWithDistinctImports ==
    [][ /\ (pc = "loop" /\ pc' = "loop") => (Measure' < Measure /\ Measure' >= 0)
        /\ (pc = "loop" /\ pending = <<>>) => pc' = "done"
        /\ Validated' => ImportsAreLoaded' ]_vars

\* LoadConfig returned after walking a cycle of two paths: the root imports
\* a file that imports the root, and the import list holds the two paths
C1_Witness ==
    /\ Validated
    /\ \E q \in loaded :
          /\ q # root
          /\ q \in ImportsOf(root)
          /\ root \in ImportsOf(q)
          /\ Range(out.Imports) = {root, q}
          /\ Len(out.Imports) = 2

\* the files reached from the root along the imports, by the paths that
\* reach them
NoFileReachesItself ==
    \A p \in loaded : Canon(p) \notin {Canon(q) : q \in Reach(ImportsOf(p))}

\* C2: for an acyclic import graph, once the queue has drained every file
\* reachable from the root was decoded and merged, and no file was decoded
\* or merged a second time, whatever the import paths that reach it.
C2_EachReachableFileOnce ==
    (Validated /\ NoFileReachesItself) =>
        /\ Reach({root}) \subseteq loaded
        /\ \A i \in 1..Len(merged), j \in 1..Len(merged) :
              i # j => Canon(merged[i]) # Canon(merged[j])

\* the paths by import depth: the root, then level after level the paths
\* imported by the loaded paths of the level before and not met earlier
RECURSIVE Levels(_, _)
Levels(frontier, seen) ==
    IF frontier = {} THEN <<>>
    ELSE <<frontier>> \o
         Levels(UNION {ImportsOf(q) : q \in frontier \cap loaded} \ (seen \cup frontier),
                seen \cup frontier)

\* the import depth of the paths merged, in merge order (the root's is 1;
\* 0: the path is not reached from the root)
MergedDepths ==
    LET lv == Levels({root}, {}) IN
    [i \in 1..Len(merged) |->
        IF \E n \in 1..Len(lv) : merged[i] \in lv[n]
        THEN CHOOSE n \in 1..Len(lv) : merged[i] \in lv[n]
        ELSE 0]

\* s without the later occurrences of its elements
RECURSIVE Dedup(_, _)
Dedup(s, acc) ==
    IF s = <<>> THEN acc
    ELSE Dedup(Tail(s), IF Head(s) \in Range(acc) THEN acc ELSE Append(acc, Head(s)))

\* the order in which the paths were first discovered: the root, then the
\* imports of the files merged, file after file, each in the order the
\* resolver returned them
Discovery ==
    Dedup(<<root>> \o Flatten([i \in 1..Len(merged) |->
                                  IF merged[i] \in loaded THEN ResolvedImports(merged[i])
                                  ELSE <<>>]), <<>>)

Max(S) == CHOOSE x \in S : \A y \in S : y <= x

\* the trees of the files merged, in merge order
MergedConfigs == [i \in 1..Len(merged) |-> ConfigAt(merged[i])]

\* the last merged file that sets a scalar gives its value
LaterScalarWins ==
    LET cs == MergedConfigs IN
    /\ \A f \in StringFields :
          LET S == {i \in 1..Len(cs) : cs[i][f] # ""} IN
          S # {} => out[f] = cs[Max(S)][f]
    /\ \A f \in IntFields :
          LET S == {i \in 1..Len(cs) : cs[i][f] # 0} IN
          S # {} => out[f] = cs[Max(S)][f]
    /\ \A f \in SectionStrings("GRPC") :
          LET S == {i \in 1..Len(cs) : cs[i].GRPC[f] # ""} IN
          S # {} => out.GRPC[f] = cs[Max(S)].GRPC[f]

IsSuffix(t, s) == Len(t) <= Len(s) /\ SubSeq(s, Len(s) - Len(t) + 1, Len(s)) = t

\* the list entries of every merged file are there, in merge order
EarlierListEntriesStay ==
    LET cs == MergedConfigs IN
    /\ IsSuffix(Flatten([i \in 1..Len(cs) |-> cs[i].DisabledPlugins]), out.DisabledPlugins)
    /\ IsSuffix(Flatten([i \in 1..Len(cs) |-> cs[i].RequiredPlugins]), out.RequiredPlugins)

\* C3: the files are merged in breadth-first order from the root: the root
\* first, a path of import depth d before any path of depth d+1, and the
\* paths in the order they were first discovered, those of one file in the
\* order the resolver returned them; so the last merged file that sets a
\* scalar gives its final value, and the list entries of the files merged
\* before are still in the lists.
C3_BreadthFirstMergeOrder ==
    /\ merged # <<>> => merged[1] = root
    /\ LET d == MergedDepths IN
       /\ \A i \in 1..Len(merged) : d[i] >= 1
       /\ \A i \in 1..(Len(merged) - 1) : d[i] <= d[i + 1]
    /\ LET o == Discovery IN
       Len(merged) <= Len(o) /\ merged = SubSeq(o, 1, Len(merged))
    /\ err.kind # "merge" => LaterScalarWins
    /\ EarlierListEntriesStay

\* a file of depth 2 was merged after the second file of depth 1, two of the
\* files set root, and the later one's value is the final one
C3_Witness ==
    /\ Validated
    /\ Len(merged) = 4
    /\ MergedDepths = <<1, 2, 2, 3>>
    /\ merged[4] \in ImportsOf(merged[2])
    /\ \E i \in 1..4, j \in 1..4 :
          /\ i < j
          /\ ConfigAt(merged[i]).Root # ""
          /\ ConfigAt(merged[j]).Root # ""
          /\ ConfigAt(merged[i]).Root # ConfigAt(merged[j]).Root
          /\ \A k \in (j + 1)..4 : ConfigAt(merged[k]).Root = ""
          /\ out.Root = ConfigAt(merged[j]).Root
          /\ Len(out.DisabledPlugins) >= 2

\* the turns of the loop that merged a file with a table for plugin id
Mentions(id) == {i \in 1..Len(merged) : id \in DOMAIN ConfigAt(merged[i]).Plugins}

\* C5: over a whole run of LoadConfig, the table the merged plugins map
\* holds for an identifier is, verbatim, the table of the last merged file
\* that mentions the identifier: not the union of the files' keys.
C5_LastFileWinsPluginTable ==
    err.kind # "merge" =>
        \A id \in UNION {DOMAIN ConfigAt(merged[i]).Plugins : i \in 1..Len(merged)} :
            /\ id \in DOMAIN out.Plugins
            /\ out.Plugins[id] = ConfigAt(merged[Max(Mentions(id))]).Plugins[id]

\* the root imports "d/*"; the two files matched each set a key of their
\* own in the table of the same plugin, and the second one's table is final
C5_Witness ==
    /\ Validated
    /\ ConfigAt(root).Imports = <<P(FALSE, <<"d", "*">>)>>
    /\ Len(merged) = 3
    /\ \E id \in DOMAIN out.Plugins :
          /\ Mentions(id) = {2, 3}
          /\ LET t2 == ConfigAt(merged[2]).Plugins[id]
                 t3 == ConfigAt(merged[3]).Plugins[id]
             IN  /\ DOMAIN t2 \ DOMAIN t3 # {}
                 /\ DOMAIN t3 \ DOMAIN t2 # {}
                 /\ out.Plugins[id] = t3

\* C10: when validation of the merged tree fails, the error LoadConfig
\* returns is wrapped with the root path, the path the caller passed.
C10_ValidationErrorNamesRoot ==
    (Validated /\ err # Nil) => err.wrap = root

\* ------------------------------------------------------------------------
\* Properties of one mergeConfig(to, from): the turn of the loop that
\* merges the file at the head of the queue into out without an error
\* ------------------------------------------------------------------------
Merges == merged' # merged /\ err'.kind # "merge"

\* the tree merged in that turn
From == ConfigAt(Head(pending))

MapFields == {"Plugins", "StreamProcessors", "ProxyPlugins", "Timeouts"}

\* C4: after mergeConfig(to, from), in each of the four maps every key of
\* from maps to exactly from's value, every key only in to keeps its value,
\* and there is no other key.
C4_MapsReplacedByKey ==
    [][ Merges =>
          \A m \in MapFields :
             /\ DOMAIN out'[m] = DOMAIN out[m] \cup DOMAIN From[m]
             /\ \A k \in DOMAIN From[m] : out'[m][k] = From[m][k]
             /\ \A k \in DOMAIN out[m] \ DOMAIN From[m] : out'[m][k] = out[m][k] ]_vars

\* /a gives two plugins a table, /b gives one of them a table without one
\* of /a's keys: that key is gone, and the other plugin's table is /a's
C4_Witness ==
    /\ merged = <<FileA, FileB>>
    /\ err.kind # "merge"
    /\ LET A == fs[FileA].config.Plugins
           B == fs[FileB].config.Plugins
       IN  /\ DOMAIN A = {IdCRI, IdSnap}
           /\ DOMAIN B = {IdCRI}
           /\ DOMAIN A[IdCRI] \ DOMAIN B[IdCRI] # {}
           /\ out.Plugins[IdCRI] = B[IdCRI]
           /\ out.Plugins[IdSnap] = A[IdSnap]

\* C6: mergeConfig(to, from) sets every scalar field, top-level or of a
\* section, to from's value when that is not the zero value of its kind,
\* and leaves to's value when it is.
C6_ScalarsOverrideUnlessZero ==
    [][ Merges =>
          /\ \A f \in StringFields : out'[f] = IF From[f] # "" THEN From[f] ELSE out[f]
          /\ \A f \in IntFields : out'[f] = IF From[f] # 0 THEN From[f] ELSE out[f]
          /\ \A s \in Sections :
                LET to == SectionOf(out, s)
                    from == SectionOf(From, s)
                    res == SectionOf(out', s)
                IN  /\ \A f \in SectionStrings(s) :
                          res[f] = IF from[f] # "" THEN from[f] ELSE to[f]
                    /\ \A f \in SectionInts(s) :
                          res[f] = IF from[f] # 0 THEN from[f] ELSE to[f]
                    /\ \A f \in SectionBools(s) :
                          res[f] = IF from[f] THEN from[f] ELSE to[f] ]_vars

\* /a and /b set root to different values: merged in this order, root is
\* /b's
C6_Witness ==
    /\ merged = <<FileA, FileB>>
    /\ fs[FileA].config.Root # ""
    /\ fs[FileB].config.Root # ""
    /\ fs[FileA].config.Root # fs[FileB].config.Root
    /\ out.Root = fs[FileB].config.Root

\* C7: mergeConfig(to, from) yields for each of the two lists to's elements
\* followed by from's, none dropped, reordered or deduplicated.
C7_ListsAppended ==
    [][ Merges =>
          /\ out'.DisabledPlugins = out.DisabledPlugins \o From.DisabledPlugins
          /\ out'.RequiredPlugins = out.RequiredPlugins \o From.RequiredPlugins ]_vars

\* /a and /b each disable a plugin, /b one that /a disabled too: the list
\* holds /a's entries, then /b's, the repeated one twice
C7_Witness ==
    /\ merged = <<FileA, FileB>>
    /\ LET A == fs[FileA].config.DisabledPlugins
           B == fs[FileB].config.DisabledPlugins
       IN  /\ Len(A) = 2 /\ A[1] # A[2]
           /\ Len(B) = 1 /\ B[1] = A[1]
           /\ out.DisabledPlugins = <<A[1], A[2], A[1]>>

\* ------------------------------------------------------------------------
\* Properties of the validation of the merged tree
\* ------------------------------------------------------------------------
VersionKinds == {"version1_unsupported", "version_expected_2"}

\* C8 as stated: version 1 is rejected with the "no longer supported"
\* error, versions 0 and 3 with the generic "expected version" error, and
\* version 2 is accepted.
C8_VersionZeroRejectedAsUnexpected ==
    Validated =>
        /\ out.Version = 1 => err.kind = "version1_unsupported"
        /\ out.Version \notin {1, 2} => err.kind = "version_expected_2"
        /\ out.Version = 2 => err.kind \notin VersionKinds

\* C8, amended: versions 1 and 0 (no version given) are rejected with the
\* "no longer supported" error, any other version but 2 with the generic
\* "expected version" error that prints the version, and version 2 is
\* accepted.
C8_VersionZeroRejectedAsVersionOne ==
    Validated =>
        /\ out.Version \in {0, 1} => err.kind = "version1_unsupported"
        /\ out.Version \notin {0, 1, 2} =>
              err.kind = "version_expected_2" /\ err.got = out.Version
        /\ out.Version = 2 => err.kind \notin VersionKinds

\* the file and the caller's tree give no version, and the error is the
\* one of version 1
C8_Witness ==
    /\ Validated
    /\ fs[FileA].config.Version = 0
    /\ out.Version = 0
    /\ err.kind = "version1_unsupported"

\* the shape of an identifier: "io.containerd." first, four segments or more
WellShaped(id) == Len(id) >= 4 /\ id[1] = "io" /\ id[2] = "containerd"

\* the identifiers of the wrong shape in the lists and the keys of a tree
Offending(c) ==
    [disabled |-> {x \in Range(c.DisabledPlugins) : ~WellShaped(x)},
     required |-> {x \in Range(c.RequiredPlugins) : ~WellShaped(x)},
     plugin |-> {x \in DOMAIN c.Plugins : ~WellShaped(x)}]

AnyOffending(c) ==
    Offending(c).disabled \cup Offending(c).required \cup Offending(c).plugin

\* the identifier errors, and the place each finds its identifier in
NamesOffending(e, c) ==
    \/ e.kind = "disabled_uri" /\ e.id \in Offending(c).disabled
    \/ e.kind = "required_uri" /\ e.id \in Offending(c).required
    \/ e.kind = "plugin_uri" /\ e.id \in Offending(c).plugin

\* C9 as stated: LoadConfig returns nil only if every identifier of the
\* merged tree has the shape, and if one has not, the error names an
\* offending identifier.
C9_ErrorAlwaysNamesIdentifier ==
    Validated =>
        /\ err = Nil => AnyOffending(out) = {}
        /\ AnyOffending(out) # {} => NamesOffending(err, out)

\* C9, amended: LoadConfig returns nil only if every identifier of the
\* merged tree has the shape; if one has not, LoadConfig returns an error,
\* which names an offending identifier when the merged version is 2 (with
\* any other version it is the version error, which names none).
C9_ErrorNamesIdentifierOfVersion2 ==
    Validated =>
        /\ err = Nil => AnyOffending(out) = {}
        /\ AnyOffending(out) # {} => err # Nil
        /\ (AnyOffending(out) # {} /\ out.Version = 2) => NamesOffending(err, out)
        /\ (AnyOffending(out) # {} /\ out.Version # 2) =>
              err.kind \in VersionKinds /\ err.id = NoId

\* the lists are well-shaped and two keys of the plugins map are not: the
\* error names one of the two
C9_Witness ==
    /\ Validated
    /\ out.Version = 2
    /\ Offending(out).disabled = {} /\ Offending(out).required = {}
    /\ out.DisabledPlugins # <<>>
    /\ Cardinality(Offending(out).plugin) = 2
    /\ err.kind = "plugin_uri"
    /\ err.id \in Offending(out).plugin

\* ------------------------------------------------------------------------
\* Properties of the import list LoadConfig leaves in out
\* ------------------------------------------------------------------------
\* the characters of a path as a string: the elements joined by "/", a
\* leading "/" when it is absolute (every file name here is one character)
RECURSIVE JoinSegs(_)
JoinSegs(segs) ==
    IF segs = <<>> THEN <<>>
    ELSE IF Len(segs) = 1 THEN <<Head(segs)>>
    ELSE <<Head(segs), "/">> \o JoinSegs(Tail(segs))

PathString(p) == (IF p.abs THEN <<"/">> ELSE <<>>) \o JoinSegs(p.segs)

\* the byte order of the characters
CharRank(c) ==
    CASE c = "*" -> 42 [] c = "." -> 46 [] c = "/" -> 47 [] c = "[" -> 91
      [] c = "a" -> 97 [] c = "b" -> 98 [] c = "d" -> 100 [] OTHER -> 127

\* s < t as strings
RECURSIVE StringLess(_, _)
StringLess(s, t) ==
    IF t = <<>> THEN FALSE
    ELSE IF s = <<>> THEN TRUE
    ELSE IF Head(s) = Head(t) THEN StringLess(Tail(s), Tail(t))
    ELSE CharRank(Head(s)) < CharRank(Head(t))

\* C11: once the queue has drained, the import list of out is the set of
\* visited paths, root included and raw import expressions gone, without
\* duplicates and in sorted order.
C11_ImportListSortedVisitedSet ==
    Validated =>
        /\ Range(out.Imports) = loaded
        /\ root \in Range(out.Imports)
        /\ Len(out.Imports) = Cardinality(loaded)
        /\ \A i \in 1..(Len(out.Imports) - 1) :
              StringLess(PathString(out.Imports[i]), PathString(out.Imports[i + 1]))

\* ------------------------------------------------------------------------
\* Properties of the fatal errors
\* ------------------------------------------------------------------------
FatalKinds == {"open", "decode", "merge", "glob"}

\* C12: a file that cannot be opened, a decode error, a merge error or an
\* import-expansion error ends LoadConfig at once: the error is returned,
\* the failing path does not enter the visited set, a file that could not
\* be opened or decoded leaves out as it was, the import list is not fixed
\* up and the validator is not run, and nothing is done after the return.
C12_FatalErrorAborts ==
    [][ /\ (pc = "loop" /\ err'.kind \in FatalKinds) =>
              /\ pc' = "done"
              /\ loaded' = loaded
              /\ Head(pending) \notin loaded'
              /\ err'.kind \in {"open", "decode"} => out' = out /\ merged' = merged
              /\ Len(merged') <= Len(merged) + 1
        /\ pc = "done" => vars' = vars ]_vars

\* the second file of the queue failed to merge while a third was waiting:
\* LoadConfig returned, the failing path is not in the visited set and the
\* third file was never read
C12_Witness ==
    /\ pc = "done"
    /\ err.kind = "merge"
    /\ Len(merged) = 2
    /\ merged[2] \notin loaded
    /\ pending # <<>>
    /\ Canon(Head(pending)) \in exists \ read

\* ------------------------------------------------------------------------
\* LoadConfig on one file without imports that holds any tree of
\* MergeConfigs and up to MaxUnknown keys the schema lacks, well-formed or
\* not, loaded into an empty tree
\* ------------------------------------------------------------------------
\* most unknown keys of a document
MaxUnknown == 2

InitDecode ==
    /\ exists = Files
    /\ \E A \in MergeConfigs, u \in 0..MaxUnknown, ok \in BOOLEAN :
          fs = [f \in Files |->
                  IF f = FileA THEN Doc(Body(ok, u, A), <<>>) ELSE Unread]
    /\ read = {FileA}
    /\ root = FileA
    /\ outNil = FALSE
    /\ path = root
    /\ pending = <<root>>
    /\ loaded = {}
    /\ out = ZeroConfig
    /\ pc = "loop"
    /\ err = Nil
    /\ merged = <<>>
    /\ warnings = 0
    /\ NoOthers

\* the turns of the loop this file enables
NextDecode ==
    \/ DecodeFails
    \/ Load
    \/ Finish

SpecDecode == InitDecode /\ [][NextDecode]_vars

\* the document with its unknown keys removed
Stripped(doc) == [doc EXCEPT !.unknown = 0]

\* a tree without its import list, which LoadConfig rewrites at the end
Content(c) == [c EXCEPT !.Imports = <<>>]

Registrations == {IdCRI, IdSnap}

\* the Config a registration may start with: its keys and their types are
\* the plugin's schema
Defaults ==
    {("k" :> Str("d")), ("k" :> Str("d") @@ "k2" :> List(<<"d">>))}

NoTable == <<>>

\* the keys of the table the plugin's schema lacks
UnknownKeys(data, cfg) == DOMAIN data \ DOMAIN cfg

\* the keys of the table whose value has not the type of the schema
Mismatched(data, cfg) == {k \in DOMAIN data \cap DOMAIN cfg : data[k].kind # cfg[k].kind}

\* cfg with the keys ks written from data
Written(cfg, data, ks) == [k \in DOMAIN cfg |-> IF k \in ks THEN data[k] ELSE cfg[k]]

\* an absent table is taken for an error
PluginDecodeAbsentFails(c, id, cfg) ==
    IF id \notin DOMAIN c.Plugins
    THEN {[value |-> NoTable, err |-> "not_found", config |-> cfg, warned |-> 0]}
    ELSE {[value |-> cfg, err |-> "nil", config |-> cfg, warned |-> 0]}

\* what Decode may return for the registration id whose Config is cfg: the
\* value, the error, the registration's Config afterwards and the warnings.
\* A value of the wrong type fails the decoding after any of the other
\* keys were written.
PluginDecode(c, id, cfg) ==
    IF id \notin DOMAIN c.Plugins
    THEN {[value |-> cfg, err |-> "nil", config |-> cfg, warned |-> 0]}
    ELSE LET data == c.Plugins[id]
             known == (DOMAIN data \cap DOMAIN cfg) \ Mismatched(data, cfg)
         IN  IF Mismatched(data, cfg) # {}
             THEN {[value |-> NoTable, err |-> "decode",
                    config |-> Written(cfg, data, ks), warned |-> 0] : ks \in SUBSET known}
             ELSE {[value |-> Written(cfg, data, known), err |-> "nil",
                    config |-> Written(cfg, data, known),
                    warned |-> Cardinality(UnknownKeys(data, cfg))]}

\* most warnings counted while the plugins decode
MaxWarnings == 2

\* Decode(ctx, p) for the registration id
Decode(id) ==
    /\ pc = "done" /\ err = Nil
    /\ \E r \in PluginDecode(out, id, regs[id]) :
          /\ warnings + r.warned <= MaxWarnings
          /\ regs' = [regs EXCEPT ![id] = r.config]
          /\ decoded' = [id |-> id, value |-> r.value, err |-> r.err]
          /\ warnings' = warnings + r.warned
    /\ UNCHANGED <<exists, fs, read, root, outNil, path, pending, loaded, out, pc,
                   err, merged, calls, ctrl, events>>

\* the merged trees: any tables for the plugins
PluginConfigs ==
    {[ZeroConfig EXCEPT !.Version = 2, !.Plugins = m] : m \in Maps(Registrations, Tables)}

InitPlugins ==
    /\ exists = Files
    /\ fs = [f \in Files |-> Unread]
    /\ read = {}
    /\ root = FileA
    /\ outNil = FALSE
    /\ path = root
    /\ pending = <<>>
    /\ loaded = {}
    /\ out \in PluginConfigs
    /\ pc = "done"
    /\ err = Nil
    /\ merged = <<>>
    /\ warnings = 0
    /\ regs \in [Registrations -> Defaults]
    /\ decoded = <<>>
    /\ calls = <<>>
    /\ ctrl = <<>>
    /\ events = <<>>

NextPlugins == \E id \in Registrations : Decode(id)

SpecPlugins == InitPlugins /\ [][NextPlugins]_vars

\* C14: Decode for a plugin without a table in the merged plugins map
\* returns the registration's Config unchanged and no error; and no Decode,
\* table or not, changes the merged tree or another registration's Config.
C14_DecodeReadsTheTreeOnly ==
    [][ decoded' # <<>> =>
          /\ out' = out
          /\ \A id \in Registrations \ {decoded'.id} : regs'[id] = regs[id]
          /\ decoded'.id \notin DOMAIN out.Plugins =>
                /\ decoded'.err = "nil"
                /\ decoded'.value = regs[decoded'.id]
                /\ regs' = regs ]_vars

\* one plugin has a table and has decoded it, the other has none: its
\* Decode returned its Config as it was
C14_Witness ==
    /\ decoded # <<>>
    /\ decoded.id \notin DOMAIN out.Plugins
    /\ decoded.err = "nil"
    /\ decoded.value = regs[decoded.id]
    /\ \E id \in DOMAIN out.Plugins :
          /\ id \in Registrations
          /\ \E k \in DOMAIN out.Plugins[id] \cap DOMAIN regs[id] :
                regs[id][k] = out.Plugins[id][k]

\* ------------------------------------------------------------------------
\* Properties of the import resolver
\* ------------------------------------------------------------------------
\* the imports of the file loaded in this turn of the loop
Declared == fs'[Canon(Head(pending))].config.Imports

\* the paths this turn of the loop has queued
Queued == SubSeq(pending', Len(pending), Len(pending'))

\* the directory that holds the file at the clean path f
ContainingDir(f) == P(f.abs, SubSeq(f.segs, 1, Len(f.segs) - 1))

\* what a non-glob expression (none here has "." or ".." in it) declared
\* in the file at f stands for
Under(f, expr) ==
    IF expr.abs THEN expr
    ELSE P(ContainingDir(f).abs, ContainingDir(f).segs \o expr.segs)

\* C15: the resolver returns one path for each non-glob expression, in the
\* order of the import list: an absolute expression as it is, a relative
\* one under the directory of the file that declares it.
C15_RelativeToDeclaringFile ==
    [][ loaded' # loaded =>
          /\ (\A i \in 1..Len(Declared) : ~HasGlob(Declared[i])) =>
                Queued = [i \in 1..Len(Declared) |-> Under(Head(pending), Declared[i])]
          /\ \A i \in 1..Len(Declared) :
                ~HasGlob(Declared[i]) =>
                    Under(Head(pending), Declared[i]) \in Range(Queued) ]_vars

\* /d/a, imported by the root /a, imports "b": /d/b was merged, and not /b,
\* which is "b" under the root's directory and under the working directory
C15_Witness ==
    /\ Validated
    /\ ContainingDir(root) = Cwd
    /\ merged = <<root, P(TRUE, <<"d", "a">>), P(TRUE, <<"d", "b">>)>>
    /\ ConfigAt(merged[2]).Imports = <<P(FALSE, <<"b">>)>>
    /\ P(TRUE, <<"b">>) \notin loaded

\* ------------------------------------------------------------------------
\* LoadConfig on one file without imports that holds any tree of
\* KeyConfigs: keys of any shape in the three maps keyed by identifiers
\* ------------------------------------------------------------------------
KeyConfigs ==
    {[ZeroConfig EXCEPT !.Version = v,
                        !.DisabledPlugins = d,
                        !.Plugins = [k \in ks |-> ("k" :> Str("v"))],
                        !.ProxyPlugins =
                            [k \in ps |-> [Type |-> "snapshot", Address |-> "/s1",
                                           Platform |-> ""]],
                        !.StreamProcessors =
                            [k \in ss |-> [Accepts |-> <<"m1">>, Returns |-> "m2",
                                           Path |-> "/p1", Args |-> <<>>, Env |-> <<>>]]]
        : v \in {0, 2}, d \in SeqsUpTo({IdCRI, IdBare}, 1),
          ks \in SUBSET {IdCRI, IdShort}, ps \in SUBSET {IdSnap, IdBare},
          ss \in SUBSET {IdSnap, IdShort}}

InitKeys ==
    /\ exists = Files
    /\ \E A \in KeyConfigs :
          fs = [f \in Files |->
                  IF f = FileA THEN Doc(Body(TRUE, 0, A), <<>>) ELSE Unread]
    /\ read = {FileA}
    /\ root = FileA
    /\ outNil = FALSE
    /\ path = root
    /\ pending = <<root>>
    /\ loaded = {}
    /\ out = ZeroConfig
    /\ pc = "loop"
    /\ err = Nil
    /\ merged = <<>>
    /\ warnings = 0
    /\ NoOthers

\* the turns of the loop this file enables
NextKeys ==
    \/ Load
    \/ Finish

SpecKeys == InitKeys /\ [][NextKeys]_vars

\* C16 as stated: after LoadConfig returned nil, every key of the plugins
\* map, of the stream-processor map and of the proxy-plugin map has the
\* shape.
C16_AllMapKeysShaped ==
    (Validated /\ err = Nil) =>
        /\ \A k \in DOMAIN out.Plugins : WellShaped(k)
        /\ \A k \in DOMAIN out.StreamProcessors : WellShaped(k)
        /\ \A k \in DOMAIN out.ProxyPlugins : WellShaped(k)

\* C16, amended: after LoadConfig returned nil, every key of the plugins
\* map has the shape (the keys of the stream-processor map and of the
\* proxy-plugin map are not looked at).
C16_PluginKeysShaped ==
    (Validated /\ err = Nil) => \A k \in DOMAIN out.Plugins : WellShaped(k)

\* LoadConfig returned nil for a tree with a plugin table and with a proxy
\* plugin and a stream processor whose keys have not the shape
C16_Witness ==
    /\ Validated
    /\ err = Nil
    /\ DOMAIN out.Plugins # {}
    /\ \E k \in DOMAIN out.ProxyPlugins : ~WellShaped(k)
    /\ \E k \in DOMAIN out.StreamProcessors : ~WellShaped(k)

\* C18: the visited set is keyed by the canonical path of a file: a file
\* reached under two spellings of its path is in the set once and is
\* decoded and merged once.
C18_VisitedSetKeyedByCanonicalPath ==
    /\ \A p \in loaded, q \in loaded : Canon(p) = Canon(q) => p = q
    /\ \A i \in 1..Len(merged), j \in 1..Len(merged) :
          Canon(merged[i]) = Canon(merged[j]) => i = j

\* ------------------------------------------------------------------------
\* The sandbox controller service: calls arrive, each runs its handler,
\* which calls the local controller and for some operations the publisher;
\* either may fail
\* ------------------------------------------------------------------------
\* calls received by the service in one run
MaxCalls == 2

SandboxIDs == {"s1", "s2"}

Operations == {"Create", "Start", "Stop", "Wait", "Shutdown"}

\* a call was received and its handler is about to call the local controller
Receive(op, id) ==
    /\ Len(calls) < MaxCalls
    /\ calls' = Append(calls, [op |-> op, id |-> id, pc |-> "local", ok |-> FALSE,
                               sandboxID |-> ""])
    /\ UNCHANGED <<exists, fs, read, root, outNil, path, pending, loaded, out, pc,
                   err, merged, warnings, regs, decoded, ctrl, events>>

\* the error of the local controller is not looked at
AfterLocalUnchecked(failed) == "publish"

\* if err != nil { return ..., errdefs.ToGRPC(err) }
AfterLocal(failed) == IF failed THEN "done" ELSE "publish"

\* the event is published without the identifier
EventOfNoID(call, topic) == [topic |-> topic, SandboxID |-> ""]

\* the event a handler publishes
EventOf(call, topic) == [topic |-> topic, SandboxID |-> call.id]

\* s.local.<op>(ctx, req.GetSandboxID()) of a handler that publishes
\* afterwards: the controller does the operation, or fails
CallLocal(c) ==
    /\ calls[c].pc = "local"
    /\ \E failed \in BOOLEAN :
          /\ ctrl' = IF failed THEN ctrl
                     ELSE Append(ctrl, [op |-> calls[c].op, id |-> calls[c].id, call |-> c])
          /\ calls' = [calls EXCEPT ![c].pc = AfterLocal(failed)]
    /\ UNCHANGED <<exists, fs, read, root, outNil, path, pending, loaded, out, pc,
                   err, merged, warnings, regs, decoded, events>>

\* s.publisher.Publish(ctx, topic, event) and the return that follows it
Publish(c, topic) ==
    /\ calls[c].pc = "publish"
    /\ \E failed \in BOOLEAN :
          /\ events' = IF failed THEN events
                       ELSE Append(events, [event |-> EventOf(calls[c], topic), call |-> c])
          /\ calls' = [calls EXCEPT ![c].pc = "done", ![c].ok = ~failed,
                                    ![c].sandboxID = IF failed THEN "" ELSE calls[c].id]
    /\ UNCHANGED <<exists, fs, read, root, outNil, path, pending, loaded, out, pc,
                   err, merged, warnings, regs, decoded, ctrl>>

\* a handler that returns what the local controller returned
ReturnLocal(c) ==
    /\ calls[c].pc = "local"
    /\ \E failed \in BOOLEAN :
          /\ ctrl' = IF failed THEN ctrl
                     ELSE Append(ctrl, [op |-> calls[c].op, id |-> calls[c].id, call |-> c])
          /\ calls' = [calls EXCEPT ![c].pc = "done", ![c].ok = ~failed]
    /\ UNCHANGED <<exists, fs, read, root, outNil, path, pending, loaded, out, pc,
                   err, merged, warnings, regs, decoded, events>>

Create ==
    \E c \in 1..Len(calls) :
        /\ calls[c].op = "Create"
        /\ (CallLocal(c) \/ Publish(c, "sandboxes/create"))

Start ==
    \E c \in 1..Len(calls) :
        /\ calls[c].op = "Start"
        /\ (CallLocal(c) \/ Publish(c, "sandboxes/start"))

Stop == \E c \in 1..Len(calls) : calls[c].op = "Stop" /\ ReturnLocal(c)

Wait ==
    \E c \in 1..Len(calls) :
        /\ calls[c].op = "Wait"
        /\ (CallLocal(c) \/ Publish(c, "sandboxes/exit"))

Shutdown == \E c \in 1..Len(calls) : calls[c].op = "Shutdown" /\ ReturnLocal(c)

InitSandbox ==
    /\ exists = Files
    /\ fs = [f \in Files |-> Unread]
    /\ read = {}
    /\ root = FileA
    /\ outNil = FALSE
    /\ path = root
    /\ pending = <<>>
    /\ loaded = {}
    /\ out = ZeroConfig
    /\ pc = "done"
    /\ err = Nil
    /\ merged = <<>>
    /\ warnings = 0
    /\ NoOthers

NextSandbox ==
    \/ \E op \in Operations, id \in SandboxIDs : Receive(op, id)
    \/ Create
    \/ Start
    \/ Stop
    \/ Wait
    \/ Shutdown

SpecSandbox == InitSandbox /\ [][NextSandbox]_vars

\* ------------------------------------------------------------------------
\* Properties of the sandbox controller service
\* ------------------------------------------------------------------------
\* the events call c has published
EventsOf(c) == {i \in 1..Len(events) : events[i].call = c}

\* the local controller has done what call c asked for
Performed(c) == \E i \in 1..Len(ctrl) : ctrl[i].call = c

\* call c has returned a response without an error
Succeeded(c) == calls[c].pc = "done" /\ calls[c].ok

\* call c has returned an error
Failed(c) == calls[c].pc = "done" /\ ~calls[c].ok

\* the operations whose handler publishes, and the topic of each
Topics == ("Create" :> "sandboxes/create") @@ ("Start" :> "sandboxes/start")
              @@ ("Wait" :> "sandboxes/exit")

\* call c has published one event, of its sandbox
OneEventOfItsSandbox(c) ==
    /\ Cardinality(EventsOf(c)) = 1
    /\ \A i \in EventsOf(c) : events[i].event.SandboxID = calls[c].id

\* C17 as stated: every successful Create, Start, Stop, Wait and Shutdown
\* has published exactly one event, with the identifier of the request.
C17_EverySuccessfulCallPublishes ==
    \A c \in 1..Len(calls) : Succeeded(c) => OneEventOfItsSandbox(c)

\* C17, amended: every successful Create, Start and Wait has published
\* exactly one event, with the identifier of the request; Stop and Shutdown
\* publish no event.
C17_CreateStartWaitPublish ==
    \A c \in 1..Len(calls) :
        IF calls[c].op \in DOMAIN Topics
        THEN Succeeded(c) =>
                /\ OneEventOfItsSandbox(c)
                /\ \A i \in EventsOf(c) : events[i].event.topic = Topics[calls[c].op]
        ELSE EventsOf(c) = {}

\* a sandbox was created and stopped, both with success: the one event is
\* Create's
C17_Witness ==
    /\ Len(calls) = 2
    /\ calls[1].op = "Create" /\ calls[2].op = "Stop"
    /\ calls[1].id = calls[2].id
    /\ Succeeded(1) /\ Succeeded(2)
    /\ Performed(2)
    /\ Len(events) = 1
    /\ events[1] = [event |-> [topic |-> "sandboxes/create", SandboxID |-> calls[1].id],
                    call |-> 1]

\* what holds of a call of Create, Start or Wait at any time
PublishesAfterLocal(c) ==
    /\ calls[c].pc = "local" => EventsOf(c) = {} /\ ~Performed(c)
    /\ EventsOf(c) # {} => Performed(c)
    /\ Succeeded(c) => EventsOf(c) # {}
    /\ (calls[c].pc = "done" /\ ~Performed(c)) => EventsOf(c) = {} /\ Failed(c)
    /\ (calls[c].pc = "done" /\ EventsOf(c) = {}) => Failed(c)

\* C19: in Create, Start and Wait the event is published only after the
\* local controller has done the operation, and the call succeeds only
\* after the event was published: a failed controller call publishes
\* nothing, a failed publish makes the call fail, and what the controller
\* has done is never taken back.
C19_PublishAfterLocalSuccessBeforeResponse ==
    [][ /\ \A c \in 1..Len(calls') :
              calls'[c].op \in DOMAIN Topics => PublishesAfterLocal(c)'
        /\ Len(ctrl) <= Len(ctrl') /\ ctrl = SubSeq(ctrl', 1, Len(ctrl)) ]_vars

\* a Start whose publish failed: the call returned an error, the local
\* controller has started the sandbox, and there is no event
C19_Witness ==
    \E c \in 1..Len(calls) :
        /\ calls[c].op = "Start"
        /\ Failed(c)
        /\ \E i \in 1..Len(ctrl) : ctrl[i] = [op |-> "Start", id |-> calls[c].id, call |-> c]
        /\ EventsOf(c) = {}
        /\ events = <<>>

====
